---- MODULE Spec2Model ----
(***************************************************************************)
(* Model of the dapp transfer confirmation screen                          *)
(* (src/src/components/dapps/DappTransferInitial.tsx): the display sorter  *)
(* sortTransactions / getTransactionCostForSorting, the row text built by  *)
(* renderTransactionRow, and the component's render and click handlers.    *)
(*                                                                         *)
(* Numbers.  An amount is a bigint: a sign and a whole number of any size. *)
(* A sorting cost and a price are JS numbers: IEEE 754 doubles, with the   *)
(* products, sums and differences rounded to the nearest double, ties to   *)
(* even, and a decimal numeral converted to the nearest double.  Infinity  *)
(* and NaN are not among the values: prices and amounts are finite and     *)
(* the results stay below the largest double.                              *)
(*                                                                         *)
(* Specifications.  Spec is the component: requests arrive, are        *)
(* replaced and closed, the price table and the totals change, buttons and *)
(* rows are clicked.  SortSpec starts before the first render of a list of *)
(* TransferLists under a price table, renders it, and sorts it again under *)
(* the other price tables.  RowSpec applies renderTransactionRow to a row  *)
(* of RowInputs under a price table.                                       *)
(***************************************************************************)
EXTENDS Integers, Sequences, FiniteSets, TLC

VARIABLES transactions, tokensBySlug, isScam, isLoading, onClose,
          renderingTransactions, sortedTransactions, view, clicked, dispatched,
          requested, quoted

vars == <<transactions, tokensBySlug, isScam, isLoading, onClose,
          renderingTransactions, sortedTransactions, view, clicked, dispatched,
          requested, quoted>>

\* transactions, tokensBySlug, isScam and isLoading are the properties of the
\* last render, onClose the property the parent passes or leaves out,
\* renderingTransactions and sortedTransactions what the hooks hold, view what
\* the render returned, clicked and dispatched the last click and the action
\* it dispatched.  requested and quoted record what the global state
\* delivered: the transfer list of the last request and the price table.

\* Longest transfer list sorted under SortSpec.
MaxLen == 3

\* Longest transfer list of a dapp request under Spec.
MaxRequestLen == 2

\* ------------------------------------------------------------------------
\* Constants of the program
\* ------------------------------------------------------------------------

NFT_FAKE_COST_USD == 1000000000

TONCOIN == [slug |-> "toncoin", symbol |-> "TON", decimals |-> 9]

\* An optional value: undefined, or a defined value.
Undefined == [some |-> FALSE]

Some(v) == [some |-> TRUE, val |-> v]

\* The function f as the table of its values.
Tabulated(f) == f @@ <<>>

\* ------------------------------------------------------------------------
\* Whole numbers of any size: the digits to the base 2^15, lowest first, the
\* highest one not zero; the empty sequence is zero.
\* ------------------------------------------------------------------------

LimbBits == 15

LimbBase == 2 ^ LimbBits

RECURSIVE NatLimbs(_)
NatLimbs(n) == IF n = 0 THEN <<>> ELSE <<n % LimbBase>> \o NatLimbs(n \div LimbBase)

\* A sequence without the zeros at its end.
RECURSIVE StripZeros(_)
StripZeros(a) ==
  IF a = <<>> THEN <<>>
  ELSE IF a[Len(a)] # 0 THEN a
  ELSE StripZeros(SubSeq(a, 1, Len(a) - 1))

LimbAt(a, i) == IF i <= Len(a) THEN a[i] ELSE 0

RECURSIVE LimbsAddFrom(_, _, _, _)
LimbsAddFrom(a, b, i, carry) ==
  IF i > Len(a) /\ i > Len(b) THEN (IF carry = 0 THEN <<>> ELSE <<carry>>)
  ELSE LET s == LimbAt(a, i) + LimbAt(b, i) + carry
       IN <<s % LimbBase>> \o LimbsAddFrom(a, b, i + 1, s \div LimbBase)

LimbsAdd(a, b) == LimbsAddFrom(a, b, 1, 0)

\* a - b for a >= b
RECURSIVE LimbsSubFrom(_, _, _, _)
LimbsSubFrom(a, b, i, borrow) ==
  IF i > Len(a) THEN <<>>
  ELSE LET d == LimbAt(a, i) - LimbAt(b, i) - borrow
       IN <<d % LimbBase>> \o LimbsSubFrom(a, b, i + 1, IF d < 0 THEN 1 ELSE 0)

LimbsSub(a, b) == StripZeros(LimbsSubFrom(a, b, 1, 0))

\* The sign of a - b.
RECURSIVE LimbsCmpFrom(_, _, _)
LimbsCmpFrom(a, b, i) ==
  IF i = 0 THEN 0
  ELSE IF a[i] # b[i] THEN (IF a[i] > b[i] THEN 1 ELSE -1)
  ELSE LimbsCmpFrom(a, b, i - 1)

LimbsCmp(a, b) ==
  IF Len(a) # Len(b) THEN (IF Len(a) > Len(b) THEN 1 ELSE -1)
  ELSE LimbsCmpFrom(a, b, Len(a))

\* a * k for 0 <= k < 2^15
RECURSIVE LimbsMulSmallFrom(_, _, _, _)
LimbsMulSmallFrom(a, k, i, carry) ==
  IF i > Len(a) THEN (IF carry = 0 THEN <<>> ELSE <<carry>>)
  ELSE LET p == a[i] * k + carry
       IN <<p % LimbBase>> \o LimbsMulSmallFrom(a, k, i + 1, p \div LimbBase)

LimbsMulSmall(a, k) == IF k = 0 THEN <<>> ELSE LimbsMulSmallFrom(a, k, 1, 0)

\* a * 2^(15 * n)
LimbsUp(a, n) == IF a = <<>> THEN <<>> ELSE [i \in 1..n |-> 0] \o a

RECURSIVE LimbsMulFrom(_, _, _)
LimbsMulFrom(a, b, i) ==
  IF i > Len(b) THEN <<>>
  ELSE LimbsAdd(LimbsMulSmall(a, b[i]), LimbsUp(LimbsMulFrom(a, b, i + 1), 1))

LimbsMul(a, b) == LimbsMulFrom(a, b, 1)

\* Quotient and remainder of a by k, 0 < k <= 2^15.
RECURSIVE LimbsDivSmallFrom(_, _, _, _)
LimbsDivSmallFrom(a, k, i, rem) ==
  IF i = 0 THEN [q |-> <<>>, r |-> rem]
  ELSE LET cur == rem * LimbBase + a[i]
           rest == LimbsDivSmallFrom(a, k, i - 1, cur % k)
       IN [q |-> rest.q \o <<cur \div k>>, r |-> rest.r]

LimbsDivSmall(a, k) ==
  LET qr == LimbsDivSmallFrom(a, k, Len(a), 0)
  IN [q |-> StripZeros(qr.q), r |-> qr.r]

\* a * 2^k
LimbsShl(a, k) == LimbsUp(LimbsMulSmall(a, 2 ^ (k % LimbBits)), k \div LimbBits)

\* a \div 2^k
LimbsShr(a, k) ==
  LimbsDivSmall(SubSeq(a, (k \div LimbBits) + 1, Len(a)), 2 ^ (k % LimbBits)).q

RECURSIVE SmallBitLength(_)
SmallBitLength(x) == IF x = 0 THEN 0 ELSE 1 + SmallBitLength(x \div 2)

\* The number of binary digits of a.
BitLength(a) ==
  IF a = <<>> THEN 0 ELSE LimbBits * (Len(a) - 1) + SmallBitLength(a[Len(a)])

\* Quotient of a by 10^k, and whether a remainder was left.
RECURSIVE LimbsDivPow10(_, _, _)
LimbsDivPow10(a, k, inexact) ==
  IF k = 0 THEN [q |-> a, inexact |-> inexact]
  ELSE LET step == IF k >= 4 THEN 4 ELSE 1
           qr == LimbsDivSmall(a, 10 ^ step)
       IN LimbsDivPow10(qr.q, k - step, inexact \/ qr.r # 0)

\* The decimal digits of a, lowest first.
RECURSIVE DecimalDigits(_)
DecimalDigits(a) ==
  IF a = <<>> THEN <<>>
  ELSE LET qr == LimbsDivSmall(a, 10)
       IN <<qr.r>> \o DecimalDigits(qr.q)

\* ------------------------------------------------------------------------
\* bigint: a sign and a size.
\* ------------------------------------------------------------------------

BigInt(n) == [neg |-> n < 0, mag |-> NatLimbs(IF n < 0 THEN 0 - n ELSE n)]

\* a + b for bigints of different signs: c is the sign of |a| - |b|.
BigIntDifference(a, b, c) ==
  IF c = 0 THEN [neg |-> FALSE, mag |-> <<>>]
  ELSE IF c > 0 THEN [neg |-> a.neg, mag |-> LimbsSub(a.mag, b.mag)]
  ELSE [neg |-> b.neg, mag |-> LimbsSub(b.mag, a.mag)]

\* a + b on bigints
BigIntPlus(a, b) ==
  IF a.neg = b.neg THEN [neg |-> a.neg, mag |-> LimbsAdd(a.mag, b.mag)]
  ELSE BigIntDifference(a, b, LimbsCmp(a.mag, b.mag))

\* ------------------------------------------------------------------------
\* number: an IEEE 754 double, (neg ? -1 : 1) * m * 2^e, with m of 53 binary
\* digits (fewer only at the lowest exponent) or zero.  Infinity and NaN are
\* not among the values.
\* ------------------------------------------------------------------------

MantissaBits == 53

MinExponent == -1074

Zero == [neg |-> FALSE, m |-> <<>>, e |-> 0]

\* A mantissa of at most 53 binary digits at exponent e, widened to 53
\* digits as far as the lowest exponent allows.
WidenToDouble(neg, n, e, up) ==
  [neg |-> neg, m |-> LimbsShl(n, up), e |-> e - up]

\* A rounded mantissa at exponent e: one of 54 binary digits is 2^53.
RoundedToDouble(neg, m, e) ==
  IF m = <<>> THEN Zero
  ELSE IF BitLength(m) > MantissaBits
       THEN [neg |-> neg, m |-> LimbsShr(m, 1), e |-> e + 1]
       ELSE [neg |-> neg, m |-> m, e |-> e]

\* The mantissa kept of n after its lowest binary digits were dropped,
\* rounded by what was dropped: c is the sign of the dropped part minus one
\* half of the last place kept.
RoundKept(kept, c, inexact) ==
  IF c > 0 \/ (c = 0 /\ (inexact \/ (kept # <<>> /\ kept[1] % 2 = 1)))
  THEN LimbsAdd(kept, <<1>>)
  ELSE kept

RoundDropping(neg, n, e, inexact, drop, kept) ==
  RoundedToDouble(neg,
                  RoundKept(kept,
                            LimbsCmp(LimbsSub(n, LimbsShl(kept, drop)),
                                     LimbsShl(<<1>>, drop - 1)),
                            inexact),
                  e + drop)

RoundWithExcess(neg, n, e, inexact, over, under) ==
  IF over <= 0 /\ under <= 0
  THEN WidenToDouble(neg, n, e, IF over > under THEN 0 - over ELSE 0 - under)
  ELSE IF over > under
       THEN RoundDropping(neg, n, e, inexact, over, LimbsShr(n, over))
       ELSE RoundDropping(neg, n, e, inexact, under, LimbsShr(n, under))

\* The double nearest to n * 2^e (n * 2^e plus less than 2^e when inexact is
\* set), ties to the even mantissa: n has over binary digits more than a
\* mantissa holds, and e is under places below the lowest exponent.
RoundToDouble(neg, n, e, inexact) ==
  IF n = <<>> THEN Zero
  ELSE RoundWithExcess(neg, n, e, inexact, BitLength(n) - MantissaBits, MinExponent - e)

\* The quotient of a division by a power of ten, at exponent e, as a double.
QuotientToDouble(neg, qr, e) == RoundToDouble(neg, qr.q, e, qr.inexact)

\* digits * 2^shift / 10^decimals at exponent -shift: the shift leaves the
\* quotient more binary digits than a mantissa holds.
ShiftedToDouble(neg, digits, decimals, shift) ==
  QuotientToDouble(neg, LimbsDivPow10(LimbsShl(digits, shift), decimals, FALSE), 0 - shift)

\* The double nearest to (neg ? -1 : 1) * digits / 10^decimals: what Number
\* makes of a decimal numeral.
DecimalToDouble(neg, digits, decimals) ==
  IF digits = <<>> THEN Zero
  ELSE IF MantissaBits + 3 + 4 * decimals > BitLength(digits)
       THEN ShiftedToDouble(neg, digits, decimals,
                            MantissaBits + 3 + 4 * decimals - BitLength(digits))
       ELSE ShiftedToDouble(neg, digits, decimals, 0)

\* The number written as the numeral n / 10^decimals.
Number(n, decimals) == DecimalToDouble(n < 0, BigInt(n).mag, decimals)

\* a * b on numbers
NumberTimes(a, b) ==
  RoundToDouble(a.neg # b.neg, LimbsMul(a.m, b.m), a.e + b.e, FALSE)

\* A bigint at exponent e as a double.
BigIntToDouble(sum, e) == RoundToDouble(sum.neg, sum.mag, e, FALSE)

\* a + b for numbers brought to the exponent e.
NumberPlusAt(a, b, e) ==
  BigIntToDouble(BigIntPlus([neg |-> a.neg, mag |-> LimbsShl(a.m, a.e - e)],
                            [neg |-> b.neg, mag |-> LimbsShl(b.m, b.e - e)]), e)

\* a + b on numbers.  An operand more than 2^128 times smaller than the
\* other does not change it.
NumberPlus(a, b) ==
  IF a.m = <<>> THEN b
  ELSE IF b.m = <<>> THEN a
  ELSE IF a.e - b.e > 128 THEN a
  ELSE IF b.e - a.e > 128 THEN b
  ELSE NumberPlusAt(a, b, IF a.e < b.e THEN a.e ELSE b.e)

\* a - b on numbers
NumberMinus(a, b) == NumberPlus(a, [b EXCEPT !.neg = ~b.neg /\ b.m # <<>>])

\* The sign of a number: 1, 0 or -1.
NumberSign(a) == IF a.m = <<>> THEN 0 ELSE IF a.neg THEN -1 ELSE 1

NumberLess(a, b) == NumberSign(NumberMinus(a, b)) < 0

\* ------------------------------------------------------------------------
\* Decimal values and their text
\* ------------------------------------------------------------------------

\* toBig(value, decimals): value / 10^decimals as a decimal value.
toBig(value, decimals) ==
  [neg |-> value.neg, digits |-> value.mag, decimals |-> decimals]

\* big.toNumber(): the double nearest to the decimal value.
toNumber(big) == DecimalToDouble(big.neg, big.digits, big.decimals)

\* toDecimal(value, decimals): the decimal numeral of value / 10^decimals:
\* the digits before the point, highest first, and the digits after it
\* without the zeros at the end.
toDecimal(value, decimals) ==
  LET low == DecimalDigits(value.mag)
      all == low \o [i \in 1..(decimals + 1 - Len(low)) |-> 0]
      n == Len(all)
  IN [neg |-> value.neg,
      int |-> [i \in 1..(n - decimals) |-> all[n + 1 - i]],
      frac |-> StripZeros([i \in 1..decimals |-> all[decimals + 1 - i]])]

\* formatCurrency(value, symbol): the amount text, kept as the numeral and
\* the symbol it shows.
formatCurrency(value, symbol) == [amount |-> value, symbol |-> symbol]

\* ------------------------------------------------------------------------
\* Payload variants
\* ------------------------------------------------------------------------

NoPayload == [type |-> "none"]

NftPayload == [type |-> "nft:transfer"]

TokenPayload(slug, amount) ==
  [type |-> "tokens:transfer", slug |-> slug, amount |-> amount]

isNftTransferPayload(payload) == payload.type = "nft:transfer"

isTokenTransferPayload(payload) == payload.type = "tokens:transfer"

\* ------------------------------------------------------------------------
\* Inputs
\* ------------------------------------------------------------------------

\* Price entries: decimals, symbol, quote.priceUsd.
TonEntry == [decimals |-> 9, symbol |-> "TON", priceUsd |-> Number(5, 0)]

XEntry == [decimals |-> 2, symbol |-> "X", priceUsd |-> Number(2, 0)]

YEntry == [decimals |-> 0, symbol |-> "Y", priceUsd |-> Number(1, 0)]

FullTable == [s \in {"toncoin", "X", "Y"} |->
               IF s = "toncoin" THEN TonEntry ELSE IF s = "X" THEN XEntry ELSE YEntry]

Restrict(f, S) == [s \in S |-> f[s]]

\* The property names every plain object inherits from Object.prototype.
ObjectPrototype ==
  {"constructor", "hasOwnProperty", "isPrototypeOf", "propertyIsEnumerable",
   "toLocaleString", "toString", "valueOf", "__defineGetter__",
   "__defineSetter__", "__lookupGetter__", "__lookupSetter__", "__proto__"}

\* What a property read of an inherited name gives: an object or a function
\* with no quote, decimals or symbol.
Inherited == [inherited |-> TRUE]

\* tokensBySlug[slug]: the table's own entry, else the property inherited
\* from Object.prototype, else undefined.
Lookup(tokens, slug) ==
  IF slug \in DOMAIN tokens THEN Some(tokens[slug])
  ELSE IF slug \in ObjectPrototype THEN Some(Inherited)
  ELSE Undefined

\* Price tables: the full one, one without token X, one without the native
\* coin.
Tables ==
  {FullTable,
   Restrict(FullTable, {"toncoin", "Y"}),
   Restrict(FullTable, {"X", "Y"})}

\* A transfer request (ApiDappTransfer) with a fee of 0.01 coin.
Transfer(displayedAmount, payload) ==
  [displayedAmount |-> BigInt(displayedAmount),
   fullFee |-> BigInt(10000000),
   payload |-> payload]

\* The native transfer of one coin.
OneCoin == Transfer(1000000000, NoPayload)

\* The native transfer of 0.06 coin: with the fee, 5 * 0.07 is the double
\* above 0.35.
RoundedUp == Transfer(60000000, NoPayload)

\* The transfer of 50 X.
FiftyX == Transfer(0, TokenPayload("X", BigInt(5000)))

\* The transfer of 0.15 X: with the fee, 0.05 + 0.3 is the double 0.35.
SmallX == Transfer(0, TokenPayload("X", BigInt(15)))

\* The transfer of 4,000,000,000 Y, valued above the NFT constant.
LargeY ==
  Transfer(0, TokenPayload("Y", BigIntPlus(BigInt(2000000000), BigInt(2000000000))))

\* The transfer of a token whose slug is no key of any price table but the
\* name of a property every object inherits.
ConstructorToken == Transfer(0, TokenPayload("constructor", BigInt(5)))

\* The NFT transfer with no native amount.
BareNft == Transfer(0, NftPayload)

\* The NFT transfer with the smallest native amount: its cost rounds to the
\* cost of BareNft.
NftWithUnit == Transfer(1, NftPayload)

\* The requests sorted under SortSpec.
Transfers ==
  {OneCoin, RoundedUp, SmallX, LargeY, ConstructorToken, BareNft, NftWithUnit}

\* The requests a dapp sends under Spec.
RequestTransfers == {OneCoin, FiftyX}

RECURSIVE SeqsUpTo(_, _)
SeqsUpTo(S, n) ==
  IF n = 0 THEN {<<>>}
  ELSE LET shorter == SeqsUpTo(S, n - 1)
       IN shorter \cup {Append(s, x) : s \in {t \in shorter : Len(t) = n - 1}, x \in S}

TransferLists == SeqsUpTo(Transfers, MaxLen)

Requests == SeqsUpTo(RequestTransfers, MaxRequestLen)

\* ------------------------------------------------------------------------
\* getTransactionCostForSorting
\* ------------------------------------------------------------------------

\* Reading a property of undefined.
TypeError == [error |-> "TypeError"]

\* The native part of the cost: the native price times the number of coins
\* of displayedAmount + fullFee.
NativeCost(transaction, priceUsd) ==
  NumberTimes(priceUsd,
              toNumber(toBig(BigIntPlus(transaction.displayedAmount, transaction.fullFee),
                             TONCOIN.decimals)))

\* The token part of the cost: the token's price times the number of tokens.
TokenCost(payload, token) ==
  NumberTimes(token.priceUsd, toNumber(toBig(payload.amount, token.decimals)))

\* if (token) cost += token.quote.priceUsd * ...: nothing is added for an
\* undefined token; reading priceUsd of the quote a found value does not
\* have throws.
CostWithToken(cost, payload, token) ==
  IF ~token.some THEN cost
  ELSE IF "priceUsd" \notin DOMAIN token.val THEN TypeError
  ELSE NumberPlus(cost, TokenCost(payload, token.val))

\* cost with the part the payload adds: the token part when the lookup of
\* the slug finds something, the NFT constant for an NFT transfer.
CostWithPayload(cost, payload, tokens) ==
  IF isTokenTransferPayload(payload)
  THEN CostWithToken(cost, payload, Lookup(tokens, payload.slug))
  ELSE IF isNftTransferPayload(payload)
       THEN NumberPlus(cost, Number(NFT_FAKE_COST_USD, 0))
       ELSE cost

\* The variant of CostWithPayload that leaves the NFT constant out.
CostWithPayloadWithoutNft(cost, payload, tokens) ==
  IF isTokenTransferPayload(payload)
  THEN CostWithToken(cost, payload, Lookup(tokens, payload.slug))
  ELSE cost

\* The variant of getTransactionCostForSorting that reads the native price
\* with optional chaining and a default of zero.
getTransactionCostDefaultingNative(transaction, tokens) ==
  CostWithPayload(NativeCost(transaction,
                             IF TONCOIN.slug \in DOMAIN tokens
                             THEN tokens[TONCOIN.slug].priceUsd ELSE Zero),
                  transaction.payload, tokens)

\* The variant that leaves the NFT constant out.
getTransactionCostWithoutNftFloor(transaction, tokens) ==
  IF TONCOIN.slug \notin DOMAIN tokens THEN TypeError
  ELSE CostWithPayloadWithoutNft(NativeCost(transaction, tokens[TONCOIN.slug].priceUsd),
                                 transaction.payload, tokens)

\* The USD valuation of one request, or the TypeError thrown when the price
\* table has no entry for the native coin.
getTransactionCostForSorting(transaction, tokens) ==
  IF ~Lookup(tokens, TONCOIN.slug).some THEN TypeError
  ELSE CostWithPayload(NativeCost(transaction, tokens[TONCOIN.slug].priceUsd),
                       transaction.payload, tokens)

\* What getTransactionCostForSorting returns for the requests and price
\* tables above, computed once.
SortingCosts ==
  Tabulated([t \in Transfers \cup RequestTransfers, table \in Tables |->
               getTransactionCostForSorting(t, table)])

\* The call of getTransactionCostForSorting, answered from the costs
\* computed before where they hold the arguments.
CostFrom(costs, transaction, tokens) ==
  IF <<transaction, tokens>> \in DOMAIN costs
  THEN costs[transaction, tokens]
  ELSE getTransactionCostForSorting(transaction, tokens)

\* ------------------------------------------------------------------------
\* sortTransactions
\* ------------------------------------------------------------------------

\* The row built by the map callback: the request's own fields, its index
\* and its sorting cost.
SortedDappTransfer(transaction, index, tokens) ==
  [displayedAmount |-> transaction.displayedAmount,
   fullFee |-> transaction.fullFee,
   payload |-> transaction.payload,
   index |-> index,
   sortingCost |-> CostFrom(SortingCosts, transaction, tokens)]

\* The request a row was built from.
TransferOf(row) ==
  [displayedAmount |-> row.displayedAmount,
   fullFee |-> row.fullFee,
   payload |-> row.payload]

\* The comparator with its operands swapped: ascending cost.
compareAscending(transaction0, transaction1) ==
  NumberSign(NumberMinus(transaction0.sortingCost, transaction1.sortingCost))

\* The comparator handed to Array.prototype.sort: the sign of
\* transaction1.sortingCost - transaction0.sortingCost.
compareTransactions(transaction0, transaction1) ==
  NumberSign(NumberMinus(transaction1.sortingCost, transaction0.sortingCost))

\* Array.prototype.sort is stable: an element goes behind every element
\* already placed that the comparator does not put after it.
RECURSIVE InsertPosition(_, _, _)
InsertPosition(placed, row, k) ==
  IF k > Len(placed) THEN k
  ELSE IF compareTransactions(placed[k], row) > 0 THEN k
  ELSE InsertPosition(placed, row, k + 1)

InsertAt(placed, row, k) ==
  SubSeq(placed, 1, k - 1) \o <<row>> \o SubSeq(placed, k, Len(placed))

InsertRow(placed, row) == InsertAt(placed, row, InsertPosition(placed, row, 1))

RECURSIVE SortRows(_, _, _)
SortRows(rows, placed, i) ==
  IF i > Len(rows) THEN placed
  ELSE SortRows(rows, InsertRow(placed, rows[i]), i + 1)

MapRows(list, tokens) ==
  [i \in 1..Len(list) |-> SortedDappTransfer(list[i], i - 1, tokens)]

Rows(rows) == [kind |-> "rows", rows |-> rows]

Thrown == [kind |-> "throw", error |-> TypeError]

NotReady == [kind |-> "undefined"]

\* The objects a call of sortTransactions works on: the array and the price
\* table it is handed, and the array that map creates.
Objects(list, tokens) ==
  [transactions |-> list, tokensBySlug |-> tokens, mapped |-> <<>>]

\* receiver.map(callback): the callback's rows go to the array created; the
\* receiver and the price table are read.
ArrayMap(objects, receiver, created) ==
  [objects EXCEPT ![created] = MapRows(objects[receiver], objects.tokensBySlug)]

\* receiver.sort(comparator): the receiver itself is put in order.
ArraySort(objects, receiver) ==
  [objects EXCEPT ![receiver] = SortRows(objects[receiver], <<>>, 1)]

\* What a call leaves: the value returned or the throw, and the two
\* arguments as they are after the call.
Call(returned, list, tokens) ==
  [returned |-> returned, transactions |-> list, tokensBySlug |-> tokens]

\* The callback of map threw on one of the requests.
MapThrew(mapped) == \E i \in 1..Len(mapped) : mapped[i].sortingCost = TypeError

\* return array.
ReturnArray(objects, array) ==
  Call(Rows(objects[array]), Some(objects.transactions), objects.tokensBySlug)

\* The throw of map, which ends the call, or .sort(...) on the array that map
\* returned and the return of that array.
SortAndReturn(objects, array) ==
  IF MapThrew(objects[array])
  THEN Call(Thrown, Some(objects.transactions), objects.tokensBySlug)
  ELSE ReturnArray(ArraySort(objects, array), array)

\* The variant of sortTransactions without the guard for an absent list.
sortTransactionsUnguarded(list, tokens) ==
  IF ~list.some THEN Call(Rows(<<>>), list, tokens)
  ELSE SortAndReturn(ArrayMap(Objects(list.val, tokens), "transactions", "mapped"),
                     "mapped")

\* The variant of sortTransactions that writes index and sortingCost into
\* the array it is handed and sorts that array.
sortTransactionsInPlace(list, tokens) ==
  IF ~list.some THEN Call(NotReady, list, tokens)
  ELSE SortAndReturn(ArrayMap(Objects(list.val, tokens), "transactions", "transactions"),
                     "transactions")

\* sortTransactions(transactions, tokensBySlug): undefined for an absent
\* list; otherwise map builds the rows in a new array, which sort puts in
\* order and which is returned, unless a cost computation threw.
sortTransactions(list, tokens) ==
  IF ~list.some THEN Call(NotReady, list, tokens)
  ELSE SortAndReturn(ArrayMap(Objects(list.val, tokens), "transactions", "mapped"),
                     "mapped")

\* ------------------------------------------------------------------------
\* renderTransactionRow
\* ------------------------------------------------------------------------

\* The pieces of a row's amount text.
NftText == [text |-> "1 NFT"]

PlusText == [text |-> " + "]

NativeText(amount) == formatCurrency(toDecimal(amount, TONCOIN.decimals), TONCOIN.symbol)

\* The symbol formatCurrency is handed when the token found has none.
UndefinedSymbol == "undefined"

\* const { decimals, symbol } = token: the entry's own, or undefined for a
\* value that has neither; toDecimal takes the native decimals for
\* undefined decimals.
TokenDecimals(token) ==
  IF "decimals" \in DOMAIN token THEN token.decimals ELSE TONCOIN.decimals

TokenSymbol(token) ==
  IF "symbol" \in DOMAIN token THEN token.symbol ELSE UndefinedSymbol

\* if (token) amountText = formatCurrency(toDecimal(amount, decimals),
\* symbol): nothing for an undefined token.
TokenAmountText(amount, token) ==
  IF ~token.some THEN <<>>
  ELSE <<formatCurrency(toDecimal(amount, TokenDecimals(token.val)),
                        TokenSymbol(token.val))>>

\* The text before the native part: "1 NFT", the token amount when the
\* lookup of the slug finds something, or nothing.
AssetText(transaction, tokens) ==
  IF isNftTransferPayload(transaction.payload) THEN <<NftText>>
  ELSE IF isTokenTransferPayload(transaction.payload)
       THEN TokenAmountText(transaction.payload.amount,
                            Lookup(tokens, transaction.payload.slug))
       ELSE <<>>

\* asset and the native amount behind it, with the separator between the
\* two when asset is not empty.
WithNative(asset, amount) ==
  (IF asset # <<>> THEN asset \o <<PlusText>> ELSE asset) \o <<NativeText(amount)>>

\* The text of a row from its asset part: the native amount is appended
\* when the asset part is empty or displayedAmount is not zero.
WithNativeIfShown(asset, transaction, amount) ==
  IF asset = <<>> \/ transaction.displayedAmount # BigInt(0)
  THEN WithNative(asset, amount)
  ELSE asset

\* The variant that shows the native amount with the fee added.
amountTextWithFee(transaction, tokens) ==
  WithNativeIfShown(AssetText(transaction, tokens), transaction,
                    BigIntPlus(transaction.displayedAmount, transaction.fullFee))

\* The amountText of renderTransactionRow.
amountText(transaction, tokens) ==
  WithNativeIfShown(AssetText(transaction, tokens), transaction,
                    transaction.displayedAmount)

\* The amount texts of the requests below under each price table, computed
\* once.
AmountTexts ==
  Tabulated([t \in Transfers \cup RequestTransfers, table \in Tables |->
               amountText(t, table)])

\* The amountText of a row, answered from the texts computed before where
\* they hold the row's request and the price table.
TextFrom(texts, transaction, tokens) ==
  IF <<TransferOf(transaction), tokens>> \in DOMAIN texts
  THEN texts[TransferOf(transaction), tokens]
  ELSE amountText(transaction, tokens)

ShowDappTransfer(transactionIdx) ==
  [type |-> "showDappTransfer", transactionIdx |-> transactionIdx]

\* The row element: its key, its text and its click handler.  place is the
\* position map hands to the callback.
renderTransactionRow(transaction, place, tokens) ==
  [key |-> transaction.index,
   amountText |-> TextFrom(AmountTexts, transaction, tokens),
   onClick |-> ShowDappTransfer(transaction.index)]

\* ------------------------------------------------------------------------
\* The component
\* ------------------------------------------------------------------------

\* useCurrentOrPrev(transactions, true): the current value when defined,
\* otherwise the last defined one.
useCurrentOrPrev(current, prev) == IF current.some THEN current ELSE prev

\* The calls of sortTransactions on the lists of Requests and on an absent
\* list under each price table, computed once.
RequestCalls ==
  Tabulated([rendering \in {Undefined} \cup {Some(list) : list \in Requests},
             tokens \in Tables |-> sortTransactions(rendering, tokens)])

\* The call of sortTransactions, answered from the calls computed before
\* where they hold the arguments.
CallFrom(calls, rendering, tokens) ==
  IF <<rendering, tokens>> \in DOMAIN calls
  THEN calls[rendering, tokens]
  ELSE sortTransactions(rendering, tokens)

\* useMemo(() => sortTransactions(...), [renderingTransactions,
\* tokensBySlug]): the value of the last render, without a call, while
\* neither dependency changed; a render that threw kept nothing.
useMemo(rendering, tokens) ==
  IF /\ rendering = renderingTransactions
     /\ tokens = tokensBySlug
     /\ sortedTransactions.kind # "throw"
  THEN Call(sortedTransactions, rendering, tokens)
  ELSE CallFrom(RequestCalls, rendering, tokens)

NoAction == [type |-> "none"]

SubmitDappTransferConfirm == [type |-> "submitDappTransferConfirm"]

OnClose == [type |-> "onClose"]

\* The variant that hands the confirm command to the button in every state.
SendOnClickUngated(scam) == SubmitDappTransferConfirm

\* The Send button's onClick property.
SendOnClick(scam) == IF ~scam THEN SubmitDappTransferConfirm ELSE NoAction

\* The content returned for a list to render: the single transfer or the
\* rows, and the properties of the Cancel and the Send button.
Content(isSingleTransaction, sorted, tokens, scam, loading) ==
  [kind |-> "content",
   single |-> isSingleTransaction,
   rows |-> IF isSingleTransaction THEN <<>>
            ELSE [k \in 1..Len(sorted.rows) |->
                    renderTransactionRow(sorted.rows[k], k, tokens)],
   sendLoading |-> loading,
   sendDisabled |-> scam,
   sendOnClick |-> SendOnClick(scam),
   cancelOnClick |-> onClose]

\* What the component function returns: nothing while no list is there to
\* render, otherwise the content.  A throw of sortTransactions ends the
\* render before anything is returned.
RenderView(props, rendering, sorted, tokens, scam, loading) ==
  IF sorted.kind = "throw" THEN [kind |-> "error"]
  ELSE IF ~rendering.some THEN [kind |-> "nothing"]
  ELSE Content(props.some /\ Len(props.val) = 1, sorted, tokens, scam, loading)

\* The state a render leaves: the transfer list and the price table as
\* the call of sortTransactions left them, the rows, and what was returned.
\* The list in the properties and the list kept for rendering are one array.
Rendered(props, scam, loading, call) ==
  /\ transactions' = IF props.some THEN call.transactions ELSE props
  /\ renderingTransactions' = call.transactions
  /\ tokensBySlug' = call.tokensBySlug
  /\ isScam' = scam
  /\ isLoading' = loading
  /\ sortedTransactions' = call.returned
  /\ view' = RenderView(props, call.transactions, call.returned, call.tokensBySlug,
                        scam, loading)
  /\ UNCHANGED onClose

\* One run of the component function with the given properties.
Render(props, tokens, scam, loading) ==
  Rendered(props, scam, loading,
           useMemo(useCurrentOrPrev(props, renderingTransactions), tokens))

\* The component before any request: no list, nothing rendered.  The parent
\* passes onClose or leaves it out.
Init ==
  /\ transactions = Undefined
  /\ tokensBySlug \in Tables
  /\ isScam = FALSE
  /\ isLoading = FALSE
  /\ onClose \in {OnClose, NoAction}
  /\ renderingTransactions = Undefined
  /\ sortedTransactions = sortTransactions(Undefined, tokensBySlug).returned
  /\ view = RenderView(Undefined, Undefined, sortedTransactions, tokensBySlug,
                       FALSE, FALSE)
  /\ requested = Undefined
  /\ quoted = tokensBySlug
  /\ clicked = 0
  /\ dispatched = NoAction

\* A dapp request arrives, the first one or one that replaces the list
\* shown or kept: the transfer list and the scam flag of its totals appear in
\* the global state and the component renders.
ReceiveTransfer ==
  /\ \E list \in Requests, scam \in BOOLEAN :
       /\ Render(Some(list), tokensBySlug, scam, isLoading)
       /\ requested' = Some(list)
  /\ UNCHANGED <<quoted, clicked, dispatched>>

\* The request is closed: the list leaves the global state, the totals are
\* taken of the absent list, and the component renders with the list it
\* kept.
CloseTransfer ==
  /\ transactions.some
  /\ \E scam \in BOOLEAN : Render(Undefined, tokensBySlug, scam, isLoading)
  /\ UNCHANGED <<requested, quoted, clicked, dispatched>>

\* The totals change while the list stays: the scam flag flips and the
\* component renders.
UpdateTotals ==
  /\ \E scam \in BOOLEAN \ {isScam} :
       Render(transactions, tokensBySlug, scam, isLoading)
  /\ UNCHANGED <<requested, quoted, clicked, dispatched>>

\* The loading flag of the transfer session flips and the component renders.
UpdateLoading ==
  /\ Render(transactions, tokensBySlug, isScam, ~isLoading)
  /\ UNCHANGED <<requested, quoted, clicked, dispatched>>

\* The price table changes and the component renders.
UpdateTokens ==
  /\ \E table \in Tables \ {tokensBySlug} :
       /\ Render(transactions, table, isScam, isLoading)
       /\ quoted' = table
  /\ UNCHANGED <<requested, clicked, dispatched>>

\* One change of the global state reaches the component as one render: the
\* mapper reads the transfer list, the scam flag, the loading flag and the
\* price table from one snapshot, so any of them may change together, the
\* price table included or not.
UpdateGlobal ==
  /\ \E props \in {Undefined} \cup {Some(list) : list \in Requests},
        table \in Tables,
        scam \in BOOLEAN,
        loading \in BOOLEAN :
       /\ <<props, table, scam, loading>> # <<transactions, tokensBySlug, isScam, isLoading>>
       /\ Render(props, table, scam, loading)
       /\ requested' = IF props.some THEN props ELSE requested
       /\ quoted' = table
  /\ UNCHANGED <<clicked, dispatched>>

\* A click on the k-th row shown.
ClickRow ==
  /\ view.kind = "content"
  /\ \E k \in 1..Len(view.rows) :
       /\ clicked' = k
       /\ dispatched' = view.rows[k].onClick
  /\ UNCHANGED <<transactions, tokensBySlug, isScam, isLoading, onClose,
                 renderingTransactions, sortedTransactions, view, requested, quoted>>

\* A click on Send.  The button (not in this file) calls onClick unless it
\* is disabled or has none; a click it does not pass on changes nothing.
ClickSend ==
  /\ view.kind = "content"
  /\ ~view.sendDisabled
  /\ view.sendOnClick # NoAction
  /\ dispatched' = view.sendOnClick
  /\ clicked' = 0
  /\ UNCHANGED <<transactions, tokensBySlug, isScam, isLoading, onClose,
                 renderingTransactions, sortedTransactions, view, requested, quoted>>

\* A click on Cancel, which calls onClose when the parent passed one.
ClickCancel ==
  /\ view.kind = "content"
  /\ view.cancelOnClick # NoAction
  /\ dispatched' = view.cancelOnClick
  /\ clicked' = 0
  /\ UNCHANGED <<transactions, tokensBySlug, isScam, isLoading, onClose,
                 renderingTransactions, sortedTransactions, view, requested, quoted>>

Next ==
  \/ ReceiveTransfer
  \/ CloseTransfer
  \/ UpdateTotals
  \/ UpdateLoading
  \/ UpdateTokens
  \/ UpdateGlobal
  \/ ClickRow
  \/ ClickSend
  \/ ClickCancel

Spec == Init /\ [][Next]_vars

\* A request before the component's first render: any list of
\* TransferLists under any price table.
SortInit ==
  /\ transactions \in {Some(list) : list \in TransferLists}
  /\ tokensBySlug \in Tables
  /\ isScam = FALSE
  /\ isLoading = FALSE
  /\ onClose = OnClose
  /\ renderingTransactions = Undefined
  /\ sortedTransactions = NotReady
  /\ view = [kind |-> "nothing"]
  /\ requested = transactions
  /\ quoted = tokensBySlug
  /\ clicked = 0
  /\ dispatched = NoAction

\* The first render of the request.
RenderTransfer ==
  /\ ~renderingTransactions.some
  /\ Render(transactions, tokensBySlug, isScam, isLoading)
  /\ UNCHANGED <<requested, quoted, clicked, dispatched>>

SortNext ==
  \/ RenderTransfer
  \/ UpdateTokens
  \/ ClickRow

SortSpec == SortInit /\ [][SortNext]_vars

\* The requests of the rows handed to renderTransactionRow under RowSpec:
\* those above, and token transfers under each name a plain object inherits.
RowTransfers ==
  Transfers \cup RequestTransfers
    \cup {Transfer(amount, TokenPayload(slug, BigInt(5))) :
            amount \in {0, 1}, slug \in ObjectPrototype}

\* A row (SortedDappTransfer) with the given index and sorting cost.
Row(transaction, index, sortingCost) ==
  [displayedAmount |-> transaction.displayedAmount,
   fullFee |-> transaction.fullFee,
   payload |-> transaction.payload,
   index |-> index,
   sortingCost |-> sortingCost]

RowInputs ==
  {Row(transaction, index, sortingCost) :
     transaction \in RowTransfers,
     index \in {0, 1},
     sortingCost \in {Zero, Number(NFT_FAKE_COST_USD, 0)}}

\* renderTransactionRow as a function of its argument and the price table of
\* the render: a row and a price table before the call.
RowInit ==
  /\ transactions = Undefined
  /\ tokensBySlug \in Tables
  /\ isScam = FALSE
  /\ isLoading = FALSE
  /\ onClose = OnClose
  /\ renderingTransactions = Undefined
  /\ sortedTransactions \in {Rows(<<row>>) : row \in RowInputs}
  /\ view = [kind |-> "nothing"]
  /\ requested = Undefined
  /\ quoted = tokensBySlug
  /\ clicked = 0
  /\ dispatched = NoAction

\* The call of renderTransactionRow on the row.
RenderRow ==
  /\ view.kind = "nothing"
  /\ view' = [kind |-> "row",
              row |-> renderTransactionRow(sortedTransactions.rows[1], 1, tokensBySlug)]
  /\ UNCHANGED <<transactions, tokensBySlug, isScam, isLoading, onClose,
                 renderingTransactions, sortedTransactions, requested, quoted,
                 clicked, dispatched>>

\* A click on the row rendered.
ClickRenderedRow ==
  /\ view.kind = "row"
  /\ clicked' = 1
  /\ dispatched' = view.row.onClick
  /\ UNCHANGED <<transactions, tokensBySlug, isScam, isLoading, onClose,
                 renderingTransactions, sortedTransactions, view, requested, quoted>>

RowNext ==
  \/ RenderRow
  \/ ClickRenderedRow

RowSpec == RowInit /\ [][RowNext]_vars

\* ------------------------------------------------------------------------
\* Properties
\* ------------------------------------------------------------------------

HasRows == sortedTransactions.kind = "rows"

SortedRows == sortedTransactions.rows

InputList == renderingTransactions.val

RowPlaces == 1..Len(SortedRows)

Floor == Number(NFT_FAKE_COST_USD, 0)

IsNftRow(row) == row.payload.type = "nft:transfer"

\* The rows are a permutation of the input list: as many rows as requests,
\* every row carries the request found at position index of the input, no
\* two rows share an index, and every row's key and click handler pass that
\* index to showDappTransfer.
IndexIsOriginalPosition ==
  /\ Len(SortedRows) = Len(InputList)
  /\ \A k \in RowPlaces :
       /\ SortedRows[k].index \in 0..(Len(InputList) - 1)
       /\ TransferOf(SortedRows[k]) = InputList[SortedRows[k].index + 1]
       /\ \A j \in RowPlaces : j # k => SortedRows[j].index # SortedRows[k].index
  /\ view.kind = "content"
  /\ \A k \in 1..Len(view.rows) :
       /\ view.rows[k].key = SortedRows[k].index
       /\ view.rows[k].onClick = ShowDappTransfer(SortedRows[k].index)

\* C1: for every list rendered under a price table that has the native
\* coin, sortTransactions returns rows, and they are a permutation of the
\* input: same length, every row's index is the position its request had
\* in the input, no two rows share an index, and the index a row passes to
\* showDappTransfer is that position.
C1_IndexIsOriginalPosition ==
  (renderingTransactions.some /\ TONCOIN.slug \in DOMAIN tokensBySlug)
  => /\ HasRows
     /\ IndexIsOriginalPosition

\* The part of C1 that the code keeps: the rows that are produced are a
\* permutation of the input and pass the original positions.
IndexIsOriginalPositionWhereProduced == HasRows => IndexIsOriginalPosition

\* A row that the sort moved was clicked and its original position was
\* dispatched.
MovedRowClicked ==
  /\ HasRows
  /\ view.kind = "content"
  /\ clicked \in RowPlaces
  /\ dispatched = ShowDappTransfer(SortedRows[clicked].index)
  /\ SortedRows[clicked].index # clicked - 1
  /\ TransferOf(SortedRows[clicked]) # InputList[clicked]

\* C2: adjacent rows are in descending order of sortingCost, and rows of
\* equal sortingCost are in ascending order of index.
C2_DescendingAndStable ==
  HasRows =>
    \A k \in RowPlaces : k < Len(SortedRows) =>
      /\ ~NumberLess(SortedRows[k].sortingCost, SortedRows[k + 1].sortingCost)
      /\ SortedRows[k].sortingCost = SortedRows[k + 1].sortingCost
           => SortedRows[k].index < SortedRows[k + 1].index

\* C2 witness: three rows; the request given last was moved to the front,
\* and the two NFT requests behind it, whose native amounts differ but whose
\* costs are the same double, are kept in input order.
C2_Witness ==
  /\ HasRows
  /\ Len(SortedRows) = 3
  /\ SortedRows[1].index = 2
  /\ NumberLess(SortedRows[2].sortingCost, SortedRows[1].sortingCost)
  /\ SortedRows[2].sortingCost = SortedRows[3].sortingCost
  /\ SortedRows[2].displayedAmount # SortedRows[3].displayedAmount
  /\ SortedRows[2].index < SortedRows[3].index

\* C3 as claimed: with an NFT row and a non-NFT row valued below the floor,
\* every NFT row precedes every such row and the first row is an NFT row.
C3_NftAlwaysFirst ==
  (/\ HasRows
   /\ \E i \in RowPlaces : IsNftRow(SortedRows[i])
   /\ \E j \in RowPlaces : /\ ~IsNftRow(SortedRows[j])
                           /\ NumberLess(SortedRows[j].sortingCost, Floor))
  => /\ \A i, j \in RowPlaces :
          (/\ IsNftRow(SortedRows[i])
           /\ ~IsNftRow(SortedRows[j])
           /\ NumberLess(SortedRows[j].sortingCost, Floor)) => i < j
     /\ IsNftRow(SortedRows[1])

\* C3 amended: every NFT row precedes every non-NFT row valued below the
\* floor, and the first row is an NFT row when there is an NFT row and every
\* non-NFT row is valued below the floor.
C3_NftBeforeRowsBelowFloor ==
  HasRows =>
    /\ \A i, j \in RowPlaces :
         (/\ IsNftRow(SortedRows[i])
          /\ ~IsNftRow(SortedRows[j])
          /\ NumberLess(SortedRows[j].sortingCost, Floor)) => i < j
    /\ (/\ \E i \in RowPlaces : IsNftRow(SortedRows[i])
        /\ \A j \in RowPlaces :
             ~IsNftRow(SortedRows[j]) => NumberLess(SortedRows[j].sortingCost, Floor))
       => IsNftRow(SortedRows[1])

\* C3 witness: an NFT request given last, behind a request valued below the
\* floor and one valued above it, is placed between the two.
C3_Witness ==
  /\ HasRows
  /\ Len(SortedRows) = 3
  /\ IsNftRow(InputList[3])
  /\ ~IsNftRow(SortedRows[1])
  /\ ~NumberLess(SortedRows[1].sortingCost, Floor)
  /\ IsNftRow(SortedRows[2])
  /\ ~IsNftRow(SortedRows[3])
  /\ NumberLess(SortedRows[3].sortingCost, Floor)

\* The native part of a request's valuation.
NativeValue(row) ==
  NumberTimes(tokensBySlug[TONCOIN.slug].priceUsd,
              toNumber(toBig(BigIntPlus(row.displayedAmount, row.fullFee), TONCOIN.decimals)))

\* The cost of every row as the claim gives it: the native part, plus the
\* token's price times the token amount for a token payload whose slug is in
\* the price table, plus nothing for a token payload whose slug is not in
\* the price table or for no payload, plus 1,000,000,000 for an NFT
\* payload, each product and sum rounded to a double; never negative.
ClaimedRowCosts ==
  \A k \in RowPlaces :
    LET row == SortedRows[k]
        payload == row.payload
    IN /\ (payload.type = "tokens:transfer" /\ payload.slug \in DOMAIN tokensBySlug)
            => row.sortingCost =
                 NumberPlus(NativeValue(row),
                            NumberTimes(tokensBySlug[payload.slug].priceUsd,
                                        toNumber(toBig(payload.amount,
                                                       tokensBySlug[payload.slug].decimals))))
       /\ (payload.type = "tokens:transfer" /\ payload.slug \notin DOMAIN tokensBySlug)
            => row.sortingCost = NativeValue(row)
       /\ payload.type = "nft:transfer"
            => row.sortingCost = NumberPlus(NativeValue(row), Floor)
       /\ payload.type = "none" => row.sortingCost = NativeValue(row)
       /\ NumberSign(row.sortingCost) >= 0

\* C4: with the native coin priced, every request of the list rendered gets
\* a sortingCost and no failure occurs, also for a token payload whose slug
\* is absent from the price table; the cost is the native price times
\* (displayedAmount + fullFee) plus the one term the payload adds.
C4_CostFormula ==
  (renderingTransactions.some /\ TONCOIN.slug \in DOMAIN tokensBySlug)
  => /\ HasRows
     /\ ClaimedRowCosts

\* The part of C4 that the code keeps: the rows that are produced carry the
\* claimed costs.
RowCostsWhereProduced == HasRows => ClaimedRowCosts

\* C5: when the price table has no entry for the native coin and the list
\* to sort has at least one request, sortTransactions throws: no rows are
\* produced and the render ends in the error.
C5_MissingNativeThrows ==
  (/\ TONCOIN.slug \notin DOMAIN tokensBySlug
   /\ renderingTransactions.some
   /\ Len(InputList) >= 1)
  => /\ sortedTransactions = Thrown
     /\ view.kind = "error"

\* C5 witness: a list of two requests was received while the price table
\* had no native entry.
C5_Witness ==
  /\ TONCOIN.slug \notin DOMAIN tokensBySlug
  /\ transactions.some
  /\ Len(transactions.val) = 2
  /\ sortedTransactions.kind = "throw"

\* C6: while the aggregate scam flag is set the Send button is disabled and
\* has no handler, so no click dispatches submitDappTransferConfirm, and
\* Cancel carries the onClose it was passed, which a click calls; while the
\* flag is not set, Send carries submitDappTransferConfirm and a click
\* dispatches it.  Both hold whatever the loading flag.
C6_ScamDisablesConfirm ==
  /\ [](view.kind = "content" =>
          /\ view.cancelOnClick = onClose
          /\ onClose = OnClose => ENABLED ClickCancel
          /\ isScam => /\ view.sendDisabled
                       /\ view.sendOnClick = NoAction
                       /\ ~ENABLED ClickSend
          /\ ~isScam => /\ ~view.sendDisabled
                        /\ view.sendOnClick = SubmitDappTransferConfirm
                        /\ ENABLED ClickSend)
  /\ [][(isScam /\ dispatched' = SubmitDappTransferConfirm)
          => dispatched = SubmitDappTransferConfirm]_vars
  /\ [][(~isScam /\ ClickSend) => dispatched' = SubmitDappTransferConfirm]_vars
  /\ [][ClickCancel => dispatched' = OnClose]_vars

\* C6 witness: with the scam flag and the loading flag set and the
\* request's list shown, Send is disabled and has no handler, and Cancel
\* was dispatched.
C6_Witness ==
  /\ isScam
  /\ isLoading
  /\ transactions.some
  /\ view.kind = "content"
  /\ view.sendLoading
  /\ view.sendDisabled
  /\ view.sendOnClick = NoAction
  /\ dispatched = OnClose

\* The amount text as the claim words it.
ClaimedAsset(row) ==
  IF row.payload.type = "nft:transfer" THEN <<NftText>>
  ELSE IF row.payload.type = "tokens:transfer" /\ row.payload.slug \in DOMAIN tokensBySlug
       THEN <<[amount |-> toDecimal(row.payload.amount, tokensBySlug[row.payload.slug].decimals),
               symbol |-> tokensBySlug[row.payload.slug].symbol]>>
       ELSE <<>>

ClaimedNativeShown(row) == ClaimedAsset(row) = <<>> \/ row.displayedAmount # BigInt(0)

\* The text of a row as the claim words it: the asset part, then the
\* separator exactly when the asset part and the native part are both there,
\* then the native amount of displayedAmount exactly when the asset part is
\* empty or displayedAmount is not zero.
ClaimedText(row) ==
  ClaimedAsset(row)
    \o (IF ClaimedAsset(row) # <<>> /\ ClaimedNativeShown(row)
        THEN <<PlusText>> ELSE <<>>)
    \o (IF ClaimedNativeShown(row)
        THEN <<[amount |-> toDecimal(row.displayedAmount, TONCOIN.decimals),
                symbol |-> TONCOIN.symbol]>>
        ELSE <<>>)

RowTextOfRowsShown ==
  HasRows =>
    /\ \A k \in RowPlaces :
         amountText(SortedRows[k], tokensBySlug) = ClaimedText(SortedRows[k])
    /\ view.kind = "content" =>
         \A k \in 1..Len(view.rows) :
           view.rows[k].amountText = amountText(SortedRows[k], tokensBySlug)

\* The numeral "0".
ZeroNumeral == [neg |-> FALSE, int |-> <<0>>, frac |-> <<>>]

\* The rows shown include an NFT row with the text "1 NFT" alone, a row with
\* the native amount "0" alone, and an NFT row with the separator and the
\* native amount "0.000000001".
RowTextsShown ==
  /\ HasRows
  /\ view.kind = "content"
  /\ \E k \in 1..Len(view.rows) : view.rows[k].amountText = <<NftText>>
  /\ \E k \in 1..Len(view.rows) :
       view.rows[k].amountText = <<[amount |-> ZeroNumeral, symbol |-> "TON"]>>
  /\ \E k \in 1..Len(view.rows) :
       view.rows[k].amountText =
         <<NftText, PlusText,
           [amount |-> [neg |-> FALSE, int |-> <<0>>, frac |-> <<0, 0, 0, 0, 0, 0, 0, 0, 1>>],
            symbol |-> "TON"]>>

IsScenarioA(row) ==
  /\ row.payload.type = "none"
  /\ row.displayedAmount = BigInt(1000000000)
  /\ row.fullFee = BigInt(10000000)
  /\ tokensBySlug[TONCOIN.slug].priceUsd = Number(5, 0)

IsFeeOnlyToken(row) ==
  /\ row.payload.type = "tokens:transfer"
  /\ row.payload.slug \in DOMAIN tokensBySlug
  /\ row.displayedAmount = BigInt(0)
  /\ row.fullFee = BigInt(10000000)

TokenText(row) ==
  [amount |-> toDecimal(row.payload.amount, tokensBySlug[row.payload.slug].decimals),
   symbol |-> tokensBySlug[row.payload.slug].symbol]

\* The numerals "1" and "1.01".
OneNumeral == [neg |-> FALSE, int |-> <<1>>, frac |-> <<>>]

OnePointZeroOneNumeral == [neg |-> FALSE, int |-> <<1>>, frac |-> <<0, 1>>]

\* C8 as claimed: the native amount in a row's text is displayedAmount +
\* fullFee: the native transfer of 1 coin with a fee of 0.01 coin at $5 has
\* sortingCost 5.05 and the text of 1.01 coins, and a token transfer with a
\* priced slug and a fee of 0.01 coin has the text token amount, separator,
\* 0.01 coin.
C8_TextIncludesFee ==
  HasRows =>
    \A k \in RowPlaces :
      LET row == SortedRows[k]
          text == amountText(row, tokensBySlug)
      IN /\ IsScenarioA(row) =>
              /\ row.sortingCost = Number(505, 2)
              /\ text = <<[amount |-> OnePointZeroOneNumeral, symbol |-> "TON"]>>
         /\ IsFeeOnlyToken(row) =>
              text = <<TokenText(row), PlusText, NativeText(BigInt(10000000))>>

\* C8 amended: sortingCost values displayedAmount + fullFee, the text shows
\* displayedAmount without the fee: the native transfer of 1 coin with a fee
\* of 0.01 coin at $5 has sortingCost 5.05 and the text of 1 coin, and a
\* token transfer with a priced slug, no native amount and a fee of 0.01
\* coin has the token amount as its whole text.
C8_TextExcludesFee ==
  HasRows =>
    \A k \in RowPlaces :
      LET row == SortedRows[k]
          text == amountText(row, tokensBySlug)
      IN /\ IsScenarioA(row) =>
              /\ row.sortingCost = Number(505, 2)
              /\ text = <<[amount |-> OneNumeral, symbol |-> "TON"]>>
         /\ IsFeeOnlyToken(row) => text = <<TokenText(row)>>
         /\ \A n \in 1..Len(text) :
              ("amount" \in DOMAIN text[n] /\ text[n].symbol = TONCOIN.symbol)
                => text[n] = NativeText(row.displayedAmount)

\* C8 witness: the native transfer of 1 coin with a fee of 0.01 coin and a
\* token transfer with a priced slug and the fee alone are both rows.
C8_Witness ==
  /\ HasRows
  /\ \E k \in RowPlaces : IsScenarioA(SortedRows[k])
  /\ \E k \in RowPlaces : IsFeeOnlyToken(SortedRows[k])

\* C9: for an absent list sortTransactions returns undefined and the
\* component renders nothing; for an empty list it returns an empty list,
\* whatever the price table.
C9_AbsentAndEmpty ==
  /\ ~renderingTransactions.some =>
       /\ sortedTransactions = NotReady
       /\ view.kind = "nothing"
  /\ (renderingTransactions.some /\ InputList = <<>>) =>
       sortedTransactions = Rows(<<>>)
  /\ \A table \in Tables :
       /\ sortTransactions(Undefined, table).returned = NotReady
       /\ sortTransactions(Some(<<>>), table).returned = Rows(<<>>)

\* C9 witness: an empty list was received while the price table had no
\* native entry, and an empty list of rows came back.
C9_Witness ==
  /\ transactions = Some(<<>>)
  /\ TONCOIN.slug \notin DOMAIN tokensBySlug
  /\ sortedTransactions = Rows(<<>>)
  /\ view.kind = "content"

\* C10: after any sequence of renders the transfer list, in the properties
\* and as kept for rendering, is the list the request brought, in its
\* order, length and elements, and the price table is the one the global
\* state delivered; and a call of sortTransactions on that list and price
\* table returns the rows, costs and indexes held from the earlier call and
\* leaves both arguments as they are.
C10_PureAndRepeatable ==
  /\ transactions.some => transactions = requested
  /\ renderingTransactions.some => renderingTransactions = requested
  /\ tokensBySlug = quoted
  /\ sortTransactions(renderingTransactions, tokensBySlug)
       = Call(sortedTransactions, renderingTransactions, tokensBySlug)

\* C10 witness: the request was closed and its list, kept, was rendered
\* again; the rows are not in input order, the list still is as the
\* request brought it.
C10_Witness ==
  /\ ~transactions.some
  /\ renderingTransactions.some
  /\ renderingTransactions = requested
  /\ HasRows
  /\ Len(SortedRows) = 2
  /\ SortedRows[1].index = 1
  /\ TransferOf(SortedRows[1]) = InputList[2]
  /\ TransferOf(SortedRows[1]) # InputList[1]

====
